---- MODULE Spec2Model ----
(***************************************************************************)
(* A model of app.py: the Streamlit script of the AQI Analysis Agent.      *)
(* One script run is render_sidebar followed by render_main_content; a     *)
(* valid submission calls analyze_conditions, which issues the AQICN       *)
(* request, normalises the response, builds the prompt and issues the      *)
(* Groq chat-completion request.  The two network calls are the points     *)
(* where the environment answers, so the run is split there.               *)
(***************************************************************************)
EXTENDS Integers, Sequences, FiniteSets, TLC

VARIABLES
    api_keys,        \* st.session_state['api_keys']: [aqicn, groq]
    pc,              \* position of the script run
    new_aqicn_key,   \* render_sidebar's local: the AQICN text input
    new_groq_key,    \* render_sidebar's local: the Groq text input
    form,            \* render_main_content's locals: the five text inputs
    button,          \* whether the Analyze button was pressed in this run
    user_input,      \* the UserInput passed to analyze_conditions
    inflight,        \* the network request awaiting its answer
    calls,           \* kinds of the network requests issued in this run
    response,        \* fetch_aqi_data's local: what requests.get/.json() gave
    aqi_data,        \* analyze_conditions' local: the record fetch returned
    issued,          \* the fetches made on the analyzer: arguments and URL
    chat_completion, \* get_recommendations' local: the chat completion's answer
    recommendations, \* render_main_content's local: what analyze_conditions returned
    ui,              \* what the run has put on the page, in order
    exc              \* the exception that escaped the run ("" when none)

vars == <<api_keys, pc, new_aqicn_key, new_groq_key, form, button, user_input,
          inflight, calls, issued, response, aqi_data, chat_completion,
          recommendations, ui, exc>>

----------------------------------------------------------------------------
(* Bounds of the model *)

\* number of distinct non-empty API key strings a user may type
NumKeys == 2
\* number of fetches made on one analyzer when its method is called directly
MaxFetches == 2
\* number of sub-metric codes that are present in one response's iaqi
MaxPresent == 1

----------------------------------------------------------------------------
(* JSON values as the json() of the response yields them *)

JInt(n) == [k |-> "int", n |-> n, s |-> ""]
\* a float is kept in tenths: JFloat(125) is 12.5
JFloat(t) == [k |-> "float", n |-> t, s |-> ""]
JStr(s) == [k |-> "str", n |-> 0, s |-> s]
JNull == [k |-> "null", n |-> 0, s |-> ""]

IsNumeric(leaf) == leaf.k \in {"int", "float"}

\* the six iaqi codes read by fetch_aqi_data and the field each one feeds
Codes == {"pm25", "pm10", "t", "h", "w", "co"}

FieldOf(code) ==
    CASE code = "pm25" -> "pm25"
      [] code = "pm10" -> "pm10"
      [] code = "t" -> "temperature"
      [] code = "h" -> "humidity"
      [] code = "w" -> "wind_speed"
      [] code = "co" -> "co"

Fields == {"aqi", "pm25", "pm10", "temperature", "humidity", "wind_speed", "co"}

\* the record of the except branch: every field the int 0
ZeroMetrics == [f \in Fields |-> JInt(0)]

----------------------------------------------------------------------------
(* The answers the AQICN endpoint can give *)

\* one iaqi entry: absent, not a mapping, or a mapping with or without "v"
AbsentEntry == [shape |-> "absent", hasv |-> FALSE, v |-> JNull]

VLeaves == {JFloat(125), JStr("-")}

PresentEntries ==
    {[shape |-> "nonmap", hasv |-> FALSE, v |-> JNull],
     [shape |-> "map", hasv |-> FALSE, v |-> JNull]}
    \cup {[shape |-> "map", hasv |-> TRUE, v |-> l] : l \in VLeaves}

NoEntries == [c \in Codes |-> AbsentEntry]

PresentCodes(e) == {c \in Codes : e[c].shape # "absent"}

EntryMaps ==
    {e \in [Codes -> PresentEntries \cup {AbsentEntry}] :
        Cardinality(PresentCodes(e)) <= MaxPresent}

AbsentIaqi == [shape |-> "absent", e |-> NoEntries]

Iaqis ==
    {AbsentIaqi, [shape |-> "nonmap", e |-> NoEntries]}
    \cup {[shape |-> "map", e |-> e] : e \in EntryMaps}

AqiLeaves == {JInt(42)}

AbsentData ==
    [shape |-> "absent", has_aqi |-> FALSE, aqi |-> JNull, iaqi |-> AbsentIaqi]

Datas ==
    {AbsentData,
     [shape |-> "nonmap", has_aqi |-> FALSE, aqi |-> JNull, iaqi |-> AbsentIaqi]}
    \cup {[shape |-> "map", has_aqi |-> FALSE, aqi |-> JNull, iaqi |-> i] :
            i \in Iaqis}
    \cup {[shape |-> "map", has_aqi |-> TRUE, aqi |-> a, iaqi |-> i] :
            a \in AqiLeaves, i \in Iaqis}

NoBody == [shape |-> "nonmap", has_status |-> FALSE, status |-> "", data |-> AbsentData]

Bodies ==
    {NoBody,
     [shape |-> "map", has_status |-> FALSE, status |-> "", data |-> AbsentData],
     [shape |-> "map", has_status |-> TRUE, status |-> "error", data |-> AbsentData]}
    \cup {[shape |-> "map", has_status |-> TRUE, status |-> "ok", data |-> d] :
            d \in Datas}

\* requests.get raises, response.json() raises, or json() yields a body
Responses ==
    {[outcome |-> "exception", body |-> NoBody],
     [outcome |-> "bad_json", body |-> NoBody]}
    \cup {[outcome |-> "json", body |-> b] : b \in Bodies}

NoResponse == [outcome |-> "none", body |-> NoBody]

----------------------------------------------------------------------------
(* AQIAnalyzer *)

\* the result of a Python call: a value, or an exception on its way up
Returned(v) == [raised |-> FALSE, exc |-> "", msg |-> "", value |-> v]
Raised(e, m, v) == [raised |-> TRUE, exc |-> e, msg |-> m, value |-> v]

Msg(kind, text) == [kind |-> kind, text |-> text]

_format_url(aqicn_key, city) ==
    "http://api.waqi.info/feed/" \o city \o "/?token=" \o aqicn_key

\* a URL that also carries the state and the country
FetchUrl_withRegion(aqicn_key, city, state, country) ==
    "http://api.waqi.info/feed/" \o city \o "," \o state \o "," \o country
        \o "/?token=" \o aqicn_key

\* fetch_aqi_data's first statement: the URL of the request it issues
FetchUrl(aqicn_key, city, state, country) == _format_url(aqicn_key, city)

\* iaqi.get(code, {}).get('v', 0) if isinstance(iaqi.get(code), dict) else 0
IaqiValue(iaqi, code) ==
    IF iaqi.shape = "map" /\ iaqi.e[code].shape = "map"
    THEN IF iaqi.e[code].hasv THEN iaqi.e[code].v ELSE JInt(0)
    ELSE JInt(0)

\* the try block, from requests.get to the return of result
TryFetch(resp) ==
    LET body == resp.body
        data == body.data
        iaqi == data.iaqi
    IN  IF resp.outcome = "exception"
        THEN Raised("RequestException", "connection failed", ZeroMetrics)
        ELSE IF resp.outcome = "bad_json"
        THEN Raised("JSONDecodeError", "Expecting value", ZeroMetrics)
        ELSE IF body.shape # "map"
        THEN Raised("AttributeError", "'list' object has no attribute 'get'",
                    ZeroMetrics)
        ELSE IF ~body.has_status
        THEN Raised("ValueError", "API returned status: None", ZeroMetrics)
        ELSE IF body.status # "ok"
        THEN Raised("ValueError", "API returned status: " \o body.status,
                    ZeroMetrics)
        ELSE IF data.shape = "absent"
        THEN Raised("KeyError", "'data'", ZeroMetrics)
        ELSE IF data.shape # "map"
        THEN Raised("AttributeError", "'str' object has no attribute 'get'",
                    ZeroMetrics)
        ELSE IF iaqi.shape = "nonmap"
        THEN Raised("AttributeError", "'list' object has no attribute 'get'",
                    ZeroMetrics)
        ELSE Returned(
                [f \in Fields |->
                    IF f = "aqi"
                    THEN IF data.has_aqi THEN data.aqi ELSE JInt(0)
                    ELSE IaqiValue(iaqi, CHOOSE c \in Codes : FieldOf(c) = f)])

\* no handler at all: whatever the try block raises goes up to the caller
fetch_aqi_data_reraise(resp) == TryFetch(resp)

\* "except ValueError": a handler narrower than the code's "except Exception"
fetch_aqi_data_narrow(resp) ==
    LET r == TryFetch(resp)
    IN  IF r.raised /\ r.exc = "ValueError"
        THEN [Returned(ZeroMetrics) EXCEPT !.msg = r.msg]
        ELSE r

\* fetch_aqi_data once the request has been answered: try / except Exception
fetch_aqi_data(resp) ==
    LET r == TryFetch(resp)
    IN  IF r.raised
        THEN [Returned(ZeroMetrics) EXCEPT !.msg = r.msg]
        ELSE r

\* what fetch_aqi_data puts on the page after the request
FetchShown(r) ==
    IF r.msg # ""
    THEN <<Msg("error", "Error fetching AQICN data: " \o r.msg)>>
    ELSE <<Msg("json", "Raw AQICN Data")>>

----------------------------------------------------------------------------
(* HealthRecommendationAgent *)

\* str() of a value, as an f-string renders it
PyStr(leaf) ==
    CASE leaf.k = "int" -> ToString(leaf.n)
      [] leaf.k = "float" ->
            IF leaf.n < 0
            THEN "-" \o ToString((-leaf.n) \div 10) \o "." \o ToString((-leaf.n) % 10)
            ELSE ToString(leaf.n \div 10) \o "." \o ToString(leaf.n % 10)
      [] leaf.k = "str" -> leaf.s
      [] OTHER -> "None"

\* Optional[str]: None or a string
PyNone == [k |-> "none", s |-> ""]
PyText(s) == [k |-> "str", s |-> s]

\* a condition that tests only "is None", and lets the empty string through
MedicalText_noneOnly(medical_conditions) ==
    IF medical_conditions.k = "none" THEN "None" ELSE medical_conditions.s

\* user_input.medical_conditions or 'None'
MedicalText(medical_conditions) ==
    IF medical_conditions.k = "none" \/ medical_conditions.s = ""
    THEN "None"
    ELSE medical_conditions.s

\* the template with the CO line left out
_create_prompt_noCo(metrics, ui_in) ==
    <<"Based on the following air quality conditions in ",
      ui_in.city, ", ", ui_in.state, ", ", ui_in.country, ":",
      "- Overall AQI: ", PyStr(metrics["aqi"]),
      "- PM2.5 Level: ", PyStr(metrics["pm25"]), " ug/m3",
      "- PM10 Level: ", PyStr(metrics["pm10"]), " ug/m3",
      "Weather conditions:",
      "- Temperature: ", PyStr(metrics["temperature"]), " C",
      "- Humidity: ", PyStr(metrics["humidity"]), "%",
      "- Wind Speed: ", PyStr(metrics["wind_speed"]), " km/h",
      "User's Context:",
      "- Medical Conditions: ", MedicalText(ui_in.medical_conditions),
      "- Planned Activity: ", ui_in.planned_activity,
      "Provide comprehensive health recommendations covering:",
      "1. The impact of current air quality on health.",
      "2. Necessary safety precautions for the planned activity.",
      "3. Advisability of the planned activity.",
      "4. The best time to conduct the activity.">>

\* the f-string of _create_prompt, as its literal pieces and its substitutions
\* (the unit signs of the source are written in ASCII)
_create_prompt(metrics, ui_in) ==
    <<"Based on the following air quality conditions in ",
      ui_in.city, ", ", ui_in.state, ", ", ui_in.country, ":",
      "- Overall AQI: ", PyStr(metrics["aqi"]),
      "- PM2.5 Level: ", PyStr(metrics["pm25"]), " ug/m3",
      "- PM10 Level: ", PyStr(metrics["pm10"]), " ug/m3",
      "- CO Level: ", PyStr(metrics["co"]), " ppb",
      "Weather conditions:",
      "- Temperature: ", PyStr(metrics["temperature"]), " C",
      "- Humidity: ", PyStr(metrics["humidity"]), "%",
      "- Wind Speed: ", PyStr(metrics["wind_speed"]), " km/h",
      "User's Context:",
      "- Medical Conditions: ", MedicalText(ui_in.medical_conditions),
      "- Planned Activity: ", ui_in.planned_activity,
      "Provide comprehensive health recommendations covering:",
      "1. The impact of current air quality on health.",
      "2. Necessary safety precautions for the planned activity.",
      "3. Advisability of the planned activity.",
      "4. The best time to conduct the activity.">>

\* the answers of client.chat.completions.create: it raises, or gives choices
NoAnswer == [outcome |-> "none", choices |-> <<>>]

GroqAnswers ==
    {[outcome |-> "raise", choices |-> <<>>],
     [outcome |-> "ok", choices |-> <<>>],
     [outcome |-> "ok", choices |-> <<"rec1">>],
     [outcome |-> "ok", choices |-> <<"rec1", "rec2">>]}

\* a get_recommendations that catches the failure and returns a fallback text
get_recommendations_fallback(answer) ==
    IF answer.outcome = "raise" \/ Len(answer.choices) = 0
    THEN Returned("Recommendations are unavailable.")
    ELSE Returned(answer.choices[1])

\* get_recommendations once the chat completion has been answered
get_recommendations(answer) ==
    IF answer.outcome = "raise"
    THEN Raised("APIError", "chat completion failed", "")
    ELSE IF Len(answer.choices) = 0
    THEN Raised("IndexError", "list index out of range", "")
    ELSE Returned(answer.choices[1])

----------------------------------------------------------------------------
(* The Streamlit session *)

\* what a key can be: empty, or one of NumKeys strings
Keys == {""} \cup {"key" \o ToString(i) : i \in 1..NumKeys}

\* what the user can have typed in the five text inputs
Forms ==
    [city : {"", "Paris"}, state : {"", "IDF"}, country : {"France", ""},
     medical_conditions : {"", "asthma"}, planned_activity : {"", "morning jog"}]

\* the inputs as a run finds them before render_main_content reads them
NoForm ==
    [city |-> "", state |-> "", country |-> "France",
     medical_conditions |-> "", planned_activity |-> ""]

NoInput ==
    [city |-> "", state |-> "", country |-> "",
     medical_conditions |-> PyNone, planned_activity |-> ""]

\* UserInput(city=city, ..., planned_activity=planned_activity)
UserInput(f) ==
    [city |-> f.city, state |-> f.state, country |-> f.country,
     medical_conditions |-> PyText(f.medical_conditions),
     planned_activity |-> f.planned_activity]

NoMetrics == [f \in Fields |-> JNull]

NoRequest == [kind |-> "none", url |-> "", prompt |-> <<>>, model |-> ""]

AqicnRequest(url) == [kind |-> "aqicn", url |-> url, prompt |-> <<>>, model |-> ""]

GroqRequest(prompt) ==
    [kind |-> "groq", url |-> "", prompt |-> prompt,
     model |-> "llama-3.3-70b-versatile"]

\* one call of fetch_aqi_data: its arguments, the analyzer's key and the URL
Fetch(aqicn_key, city, state, country) ==
    [aqicn_key |-> aqicn_key, city |-> city, state |-> state,
     country |-> country,
     url |-> FetchUrl(aqicn_key, city, state, country)]

\* a transport that sends the GET a second time
FetchRequests_twice(url) == <<AqicnRequest(url), AqicnRequest(url)>>

\* requests.get(url, timeout=10): the requests one call of fetch_aqi_data sends
FetchRequests(url) == <<AqicnRequest(url)>>

Kinds(reqs) == [i \in DOMAIN reqs |-> reqs[i].kind]

\* a condition without the emptiness test: any input that differs is stored
SidebarKey_anyChange(stored, new) == IF new # stored THEN new ELSE stored

\* if new_key and new_key != stored: stored = new_key
SidebarKey(stored, new) ==
    IF new # "" /\ new # stored THEN new ELSE stored

\* the success messages of render_sidebar, for the keys it has replaced
SidebarShown(old, new) ==
    (IF new.aqicn # old.aqicn
     THEN <<Msg("success", "AQICN API key updated!")>> ELSE <<>>)
    \o (IF new.groq # old.groq
        THEN <<Msg("success", "Groq API key updated!")>> ELSE <<>>)

\* a check of the city alone
ValidFields_cityOnly(f) == f.city # ""

\* city and planned_activity
ValidFields(f) == f.city # "" /\ f.planned_activity # ""

\* st.session_state['api_keys']['aqicn'] and st.session_state['api_keys']['groq']
HaveKeys(k) == k.aqicn # "" /\ k.groq # ""

Init ==
    /\ api_keys \in [aqicn : Keys, groq : Keys]
    /\ pc = "idle"
    /\ new_aqicn_key = ""
    /\ new_groq_key = ""
    /\ form = NoForm
    /\ button = FALSE
    /\ user_input = NoInput
    /\ inflight = NoRequest
    /\ calls = <<>>
    /\ issued = <<>>
    /\ response = NoResponse
    /\ aqi_data = NoMetrics
    /\ chat_completion = NoAnswer
    /\ recommendations = PyNone
    /\ ui = <<>>
    /\ exc = ""

\* a new script run starts: main() calls render_sidebar
RenderSidebar(na, ng) ==
    /\ pc = "idle"
    /\ LET keys == [aqicn |-> SidebarKey(api_keys.aqicn, na),
                    groq |-> SidebarKey(api_keys.groq, ng)]
       IN  /\ api_keys' = keys
           /\ ui' = SidebarShown(api_keys, keys)
    /\ new_aqicn_key' = na
    /\ new_groq_key' = ng
    /\ pc' = "main"
    /\ form' = NoForm
    /\ button' = FALSE
    /\ user_input' = NoInput
    /\ inflight' = NoRequest
    /\ calls' = <<>>
    /\ issued' = <<>>
    /\ response' = NoResponse
    /\ aqi_data' = NoMetrics
    /\ chat_completion' = NoAnswer
    /\ recommendations' = PyNone
    /\ exc' = ""

\* render_main_content reads the inputs; render_sidebar's locals are gone
ReadForm(f, b) ==
    /\ pc = "main"
    /\ form' = f
    /\ button' = b
    /\ new_aqicn_key' = ""
    /\ new_groq_key' = ""
    /\ UNCHANGED <<api_keys, response, aqi_data, chat_completion,
                   recommendations, exc>>

\* the button was not pressed: the run ends
MainNoClick(f) ==
    /\ ReadForm(f, FALSE)
    /\ pc' = "idle"
    /\ UNCHANGED <<user_input, inflight, calls, issued, ui>>

\* if not (city and planned_activity): st.error
SubmitMissingFields(f) ==
    /\ ReadForm(f, TRUE)
    /\ ~ValidFields(f)
    /\ ui' = Append(ui, Msg("error", "Please fill in all required fields."))
    /\ pc' = "idle"
    /\ UNCHANGED <<user_input, inflight, calls, issued>>

\* elif not (both keys): st.error
SubmitMissingKeys(f) ==
    /\ ReadForm(f, TRUE)
    /\ ValidFields(f)
    /\ ~HaveKeys(api_keys)
    /\ ui' = Append(ui, Msg("error",
            "Please provide both your AQICN and Groq API keys in the sidebar."))
    /\ pc' = "idle"
    /\ UNCHANGED <<user_input, inflight, calls, issued>>

\* else: analyze_conditions runs up to requests.get
SubmitValid(f) ==
    /\ ReadForm(f, TRUE)
    /\ ValidFields(f)
    /\ HaveKeys(api_keys)
    /\ LET url == FetchUrl(api_keys.aqicn, f.city, f.state, f.country)
           reqs == FetchRequests(url)
       IN  /\ user_input' = UserInput(f)
           /\ ui' = Append(ui, Msg("info", "Accessing URL: " \o url))
           /\ inflight' = reqs[Len(reqs)]
           /\ calls' = calls \o Kinds(reqs)
    /\ issued' = <<Fetch(api_keys.aqicn, f.city, f.state, f.country)>>
    /\ pc' = "fetching"

\* the AQICN request is answered: fetch_aqi_data returns, get_recommendations
\* builds the prompt and calls the chat completion
FetchReturn(resp) ==
    /\ pc = "fetching"
    /\ response' = resp
    /\ LET r == fetch_aqi_data(resp)
       IN  IF r.raised
           THEN /\ exc' = r.exc
                /\ pc' = "idle"
                /\ inflight' = NoRequest
                /\ UNCHANGED <<aqi_data, calls, ui>>
           ELSE /\ aqi_data' = r.value
                /\ ui' = ui \o FetchShown(r)
                /\ inflight' = GroqRequest(_create_prompt(r.value, user_input))
                /\ calls' = Append(calls, "groq")
                /\ pc' = "recommending"
                /\ exc' = exc
    /\ UNCHANGED <<api_keys, new_aqicn_key, new_groq_key, form, button,
                   user_input, issued, chat_completion, recommendations>>

\* the file name of the download button
FileName(f) == "aqi_recommendations_" \o f.city \o "_" \o f.state \o ".txt"

\* the chat completion is answered: the run shows the result, or the error
\* goes up through analyze_conditions and render_main_content
GroqReturn(answer) ==
    /\ pc = "recommending"
    /\ chat_completion' = answer
    /\ LET r == get_recommendations(answer)
       IN  IF r.raised
           THEN /\ exc' = r.exc
                /\ recommendations' = PyNone
                /\ ui' = ui
           ELSE /\ exc' = exc
                /\ recommendations' = PyText(r.value)
                /\ ui' = ui \o <<Msg("success", "Analysis completed!"),
                                 Msg("markdown", "### Recommendations"),
                                 Msg("markdown", r.value),
                                 Msg("download", FileName(form))>>
    /\ pc' = "idle"
    /\ inflight' = NoRequest
    /\ response' = NoResponse
    /\ aqi_data' = NoMetrics
    /\ user_input' = NoInput
    /\ UNCHANGED <<api_keys, new_aqicn_key, new_groq_key, form, button, calls,
                   issued>>

Next ==
    \/ \E na \in Keys, ng \in Keys : RenderSidebar(na, ng)
    \/ \E f \in Forms : MainNoClick(f)
    \/ \E f \in Forms : SubmitMissingFields(f)
    \/ \E f \in Forms : SubmitMissingKeys(f)
    \/ \E f \in Forms : SubmitValid(f)
    \/ \E resp \in Responses : FetchReturn(resp)
    \/ \E answer \in GroqAnswers : GroqReturn(answer)

Spec == Init /\ [][Next]_vars

----------------------------------------------------------------------------
(* get_recommendations called on its own, with any metrics and any UserInput *)

AgentInputs ==
    [city : {"", "Paris"}, state : {"", "IDF"}, country : {"France", ""},
     medical_conditions : {PyNone, PyText(""), PyText("asthma"), PyText("None")},
     planned_activity : {"", "morning jog"}]

\* Scenario A of the specification: aqi 42, pm25 12.5, the rest 0
ScenarioA == [ZeroMetrics EXCEPT !["aqi"] = JInt(42), !["pm25"] = JFloat(125)]

InitPrompt ==
    /\ api_keys \in [aqicn : Keys, groq : Keys \ {""}]
    /\ pc = "agent"
    /\ new_aqicn_key = ""
    /\ new_groq_key = ""
    /\ form = NoForm
    /\ button = FALSE
    /\ user_input \in AgentInputs
    /\ inflight = NoRequest
    /\ calls = <<>>
    /\ issued = <<>>
    /\ response = NoResponse
    /\ aqi_data \in {ZeroMetrics, ScenarioA}
    /\ chat_completion = NoAnswer
    /\ recommendations = PyNone
    /\ ui = <<>>
    /\ exc = ""

\* get_recommendations up to client.chat.completions.create
AgentCall ==
    /\ pc = "agent"
    /\ inflight' = GroqRequest(_create_prompt(aqi_data, user_input))
    /\ calls' = Append(calls, "groq")
    /\ pc' = "agent_called"
    /\ UNCHANGED <<api_keys, new_aqicn_key, new_groq_key, form, button,
                   user_input, issued, response, aqi_data, chat_completion,
                   recommendations, ui, exc>>

NextPrompt == AgentCall

SpecPrompt == InitPrompt /\ [][NextPrompt]_vars

----------------------------------------------------------------------------
(* fetch_aqi_data called on one analyzer, several times, with any arguments *)

InitUrl ==
    /\ api_keys \in [aqicn : Keys, groq : {""}]
    /\ pc = "analyzer"
    /\ new_aqicn_key = ""
    /\ new_groq_key = ""
    /\ form = NoForm
    /\ button = FALSE
    /\ user_input = NoInput
    /\ inflight = NoRequest
    /\ calls = <<>>
    /\ issued = <<>>
    /\ response = NoResponse
    /\ aqi_data = NoMetrics
    /\ chat_completion = NoAnswer
    /\ recommendations = PyNone
    /\ ui = <<>>
    /\ exc = ""

\* fetch_aqi_data(city, state, country) up to requests.get
DirectFetch(city, state, country) ==
    /\ pc = "analyzer"
    /\ Len(issued) < MaxFetches
    /\ LET fetch == Fetch(api_keys.aqicn, city, state, country)
       IN  /\ issued' = Append(issued, fetch)
           /\ inflight' = FetchRequests(fetch.url)[1]
           /\ calls' = <<>>
    /\ UNCHANGED <<api_keys, pc, new_aqicn_key, new_groq_key, form, button,
                   user_input, response, aqi_data, chat_completion,
                   recommendations, ui, exc>>

NextUrl ==
    \E city \in {"Paris", "Lyon"}, state \in {"", "IDF"},
       country \in {"France", ""} : DirectFetch(city, state, country)

SpecUrl == InitUrl /\ [][NextUrl]_vars

----------------------------------------------------------------------------
(* Properties *)

Count(seq, x) == Cardinality({i \in DOMAIN seq : seq[i] = x})

\* the piece of a prompt that follows a given literal piece
PieceAfter(prompt, label) ==
    prompt[(CHOOSE i \in DOMAIN prompt : prompt[i] = label) + 1]

\* the fetch has been answered and its local response is still in scope
Answered == response.outcome # "none"

\* a failed air-quality request: the request raised, the body did not parse,
\* the status is not "ok", or reading the body raised
FailedFetch(resp) ==
    \/ resp.outcome \in {"exception", "bad_json"}
    \/ /\ resp.outcome = "json"
       /\ \/ resp.body.shape # "map"
          \/ ~resp.body.has_status
          \/ resp.body.status # "ok"
          \/ resp.body.data.shape # "map"
          \/ resp.body.data.iaqi.shape = "nonmap"

StatusOk(resp) ==
    /\ resp.outcome = "json"
    /\ resp.body.shape = "map"
    /\ resp.body.has_status
    /\ resp.body.status = "ok"

\* C1: whenever the air-quality request has failed (exception or timeout,
\* unparsable body, status other than "ok", any other exception while the
\* response was read), fetch_aqi_data has returned the record with all seven
\* fields 0 and no exception has escaped.
C1_FailureGivesZeros ==
    (Answered /\ FailedFetch(response)) =>
        (aqi_data = ZeroMetrics /\ exc = "")

C1_Witness ==
    /\ response.outcome = "json"
    /\ response.body.has_status
    /\ response.body.status = "error"
    /\ aqi_data = ZeroMetrics
    /\ exc = ""

\* C2: for every response with status "ok", aqi is data.aqi (0 if absent) and
\* each of the six sub-metric fields is iaqi[code].v when iaqi[code] is a
\* mapping with a numeric v, and 0 when the code is absent or is not a mapping
\* with a numeric v, each field decided independently of the others.
C2_OkResponseExtraction ==
    (Answered /\ StatusOk(response)) =>
        LET data == response.body.data
        IN  /\ aqi_data["aqi"] = (IF data.has_aqi THEN data.aqi ELSE JInt(0))
            /\ \A c \in Codes :
                  LET entry == data.iaqi.e[c]
                  IN  aqi_data[FieldOf(c)] =
                        (IF entry.shape = "map" /\ entry.hasv /\ IsNumeric(entry.v)
                         THEN entry.v
                         ELSE JInt(0))

\* C3: in every run of analyze_conditions the air-quality fetch is issued and
\* has returned before the recommendation call is issued, and the prompt of
\* the recommendation call contains the value of each of the seven fields of
\* the record the fetch returned.
C3_FetchThenPromptWithMetrics ==
    /\ \A i \in DOMAIN calls :
          calls[i] = "groq" =>
              /\ \E j \in 1..(i - 1) : calls[j] = "aqicn"
              /\ pc # "fetching"
    /\ inflight.kind = "groq" =>
          /\ Answered
          /\ aqi_data # NoMetrics
          /\ \A f \in Fields :
                Count(inflight.prompt, PyStr(aqi_data[f])) >=
                    Cardinality({g \in Fields :
                                    PyStr(aqi_data[g]) = PyStr(aqi_data[f])})

C3_Witness ==
    /\ inflight.kind = "groq"
    /\ calls = <<"aqicn", "groq">>
    /\ aqi_data["aqi"] = JInt(42)
    /\ aqi_data["co"] = JFloat(125)

\* C4: a submission with an empty city, an empty planned activity, an empty
\* AQICN key or an empty Groq key shows a validation error and does not invoke
\* analyze_conditions: no air-quality request and no recommendation request is
\* issued in it.
C4_ValidationBlocksRequests ==
    (button /\ (\/ form.city = ""
                \/ form.planned_activity = ""
                \/ api_keys.aqicn = ""
                \/ api_keys.groq = "")) =>
        /\ calls = <<>>
        /\ issued = <<>>
        /\ inflight = NoRequest
        /\ pc = "idle"
        /\ \E i \in DOMAIN ui : ui[i].kind = "error"

C4_Witness ==
    /\ button
    /\ form.city = "Paris"
    /\ form.planned_activity = ""
    /\ HaveKeys(api_keys)
    /\ calls = <<>>
    /\ \E i \in DOMAIN ui : ui[i].kind = "error"

\* C5: a failure of the air-quality fetch never halts the pipeline: whenever
\* the fetch has failed, the recommendation call has been issued after it,
\* with the prompt built from the all-zero record.
C5_FailedFetchStillRecommends ==
    (Answered /\ FailedFetch(response)) =>
        /\ pc = "recommending"
        /\ calls # <<>>
        /\ calls[Len(calls)] = "groq"
        /\ inflight = GroqRequest(_create_prompt(ZeroMetrics, user_input))

C5_Witness ==
    /\ response.outcome = "exception"
    /\ pc = "recommending"
    /\ inflight.kind = "groq"
    /\ PieceAfter(inflight.prompt, "- Overall AQI: ") = "0"

\* C6: when the chat-completion call fails, the error leaves
\* get_recommendations and analyze_conditions uncaught: no recommendation
\* text is returned and the page shows no success message, no recommendation
\* and no download offer.
C6_RecommendationFailurePropagates ==
    chat_completion.outcome = "raise" =>
        /\ exc # ""
        /\ recommendations = PyNone
        /\ \A i \in DOMAIN ui :
              /\ ui[i] # Msg("success", "Analysis completed!")
              /\ ui[i].kind \notin {"markdown", "download"}

C6_Witness ==
    /\ chat_completion.outcome = "raise"
    /\ exc = "APIError"
    /\ calls = <<"aqicn", "groq">>
    /\ pc = "idle"

\* C7: within one submission that runs analyze_conditions, exactly one
\* air-quality request and at most one recommendation request are issued,
\* whatever their outcomes; a failed request is never issued again.
C7_OneRequestOfEachKind ==
    /\ Count(calls, "aqicn") <= 1
    /\ Count(calls, "groq") <= 1
    /\ (pc \in {"fetching", "recommending"} \/ chat_completion.outcome # "none")
          => Count(calls, "aqicn") = 1
    /\ chat_completion.outcome # "none" => Count(calls, "groq") = 1

C7_Witness ==
    /\ pc = "idle"
    /\ chat_completion.outcome = "raise"
    /\ Count(calls, "aqicn") = 1
    /\ Count(calls, "groq") = 1
    /\ \E i \in DOMAIN ui : ui[i].kind = "error"

\* C8: the URL of the air-quality request is determined by the city and the
\* AQICN key alone: two fetches with the same city and key issue the same
\* URL, whatever their state and country.
C8_UrlFromCityAndKey ==
    \A i, j \in DOMAIN issued :
        (issued[i].city = issued[j].city
            /\ issued[i].aqicn_key = issued[j].aqicn_key)
        => issued[i].url = issued[j].url

C8_Witness ==
    \E i, j \in DOMAIN issued :
        /\ issued[i].city = issued[j].city
        /\ issued[i].state # issued[j].state
        /\ issued[i].country # issued[j].country
        /\ issued[i].url = issued[j].url

\* C9: the prompt shows the medical conditions as the literal "None" when
\* medical_conditions is absent or the empty string, and as the user's own
\* text otherwise.
C9_MedicalConditionsOrNone ==
    inflight.kind = "groq" =>
        LET mc == user_input.medical_conditions
            shown == PieceAfter(inflight.prompt, "- Medical Conditions: ")
        IN  shown = (IF mc.k = "none" \/ mc.s = "" THEN "None" ELSE mc.s)

C9_Witness ==
    /\ inflight.kind = "groq"
    /\ user_input.medical_conditions = PyText("")
    /\ PieceAfter(inflight.prompt, "- Medical Conditions: ") = "None"

\* C10: a stored key is only ever replaced by a non-empty value that differs
\* from it; an empty input leaves it unchanged, a key that is non-empty stays
\* non-empty, and an update of one key leaves the other key unchanged.
C10_KeysOnlyReplacedByNonEmpty ==
    [][/\ api_keys'.aqicn # api_keys.aqicn =>
            (api_keys'.aqicn # "" /\ api_keys'.aqicn = new_aqicn_key')
       /\ api_keys'.groq # api_keys.groq =>
            (api_keys'.groq # "" /\ api_keys'.groq = new_groq_key')
       /\ new_aqicn_key' \in {"", api_keys.aqicn} =>
            api_keys'.aqicn = api_keys.aqicn
       /\ new_groq_key' \in {"", api_keys.groq} =>
            api_keys'.groq = api_keys.groq
       /\ api_keys.aqicn # "" => api_keys'.aqicn # ""
       /\ api_keys.groq # "" => api_keys'.groq # ""]_vars

C10_Witness ==
    /\ pc = "main"
    /\ new_aqicn_key = "key2"
    /\ api_keys.aqicn = "key2"
    /\ ui = <<Msg("success", "AQICN API key updated!")>>
    /\ new_groq_key = ""
    /\ api_keys.groq = "key1"

====
